---- MODULE Spec2Model ----
(***************************************************************************)
(* Model of state/src/path.rs: the host features MakePath, MapPath and     *)
(* FreePath, the wrappers ManagedPath / ManagedStr and the PathManager.    *)
(*                                                                         *)
(* Strings are sequences of bytes (0..255, the bit pattern of a c_char).   *)
(* A pointer is an integer: NULL, an address the host allocated            *)
(* (1..MaxPtr, handed out in order) or PluginBuf, the address of the       *)
(* Vec<c_char> the plugin builds for an argument.  A &str / &Path is the   *)
(* fat pointer [ptr, bytes].                                               *)
(***************************************************************************)
EXTENDS Integers, Sequences, FiniteSets

\* ---------------------------------------------------------------- bounds
MaxLen == 2        \* longest input path, in bytes
MaxPtr == 2        \* number of strings the host may allocate
MaxClones == 1     \* FreePath clones the plugin keeps for itself

\* ------------------------------------------------------------- constants
NULL == 0          \* the null pointer (is_null, null_mut)
NUL == 0           \* the terminator byte, once(0)

PluginBuf == MaxPtr + 1
Ptrs == 0..(MaxPtr + 1)

\* '/', and the two bytes of U+00E9: 195 169 is valid UTF-8, 195 or 169
\* alone is not.
Bytes == {47, 195, 169}

RECURSIVE SeqsUpTo(_)
SeqsUpTo(n) ==
    IF n = 0 THEN {<< >>}
    ELSE LET S == SeqsUpTo(n - 1)
         IN S \cup {Append(s, b) : s \in {t \in S : Len(t) = n - 1}, b \in Bytes}

\* ------------------------------------------------- std conversions used
\* core::str::from_utf8 restricted to one- and two-byte sequences (bytes of
\* three- and four-byte sequences are not in Bytes; a lead byte >= 224 is
\* rejected here).
RECURSIVE ValidFrom(_, _)
ValidFrom(s, i) ==
    IF i > Len(s) THEN TRUE
    ELSE IF s[i] < 128 THEN ValidFrom(s, i + 1)
    ELSE IF s[i] >= 194 /\ s[i] <= 223
         THEN /\ i + 1 <= Len(s)
              /\ s[i + 1] >= 128
              /\ s[i + 1] <= 191
              /\ ValidFrom(s, i + 2)
    ELSE FALSE

IsUTF8(s) == ValidFrom(s, 1)

\* Path::is_absolute on Unix: the path has a root, i.e. starts with '/'.
is_absolute(path) == Len(path) >= 1 /\ path[1] = 47

\* Path::is_relative is !is_absolute.
is_relative(path) == ~is_absolute(path)

\* Forgets the terminator.
to_c_chars_NoTerminator(bytes) == bytes

\* .bytes().chain(once(0)).map(|b| b as c_char).collect(): the bytes, then
\* one terminator; the cast keeps the bit pattern.
to_c_chars(bytes) == Append(bytes, NUL)

\* Index of the first NUL of a buffer (0 when there is none).
RECURSIVE FirstNul(_, _)
FirstNul(mem, i) ==
    IF i > Len(mem) THEN 0
    ELSE IF mem[i] = NUL THEN i
    ELSE FirstNul(mem, i + 1)

\* CStr::from_ptr(p): the slice that starts at p and ends before the first
\* NUL of the memory at p.
CStr_from_ptr(p, mem) ==
    [ptr |-> p, bytes |-> SubSeq(mem, 1, FirstNul(mem, 1) - 1)]

\* str::as_ptr: the address of the first byte of the slice.
as_ptr(s) == s.ptr

\* --------------------------------------------------------------- inputs
Paths == SeqsUpTo(MaxLen)                  \* &Path: any bytes
Strs == {s \in Paths : IsUTF8(s)}          \* &str: valid UTF-8 only

\* What the host has at the address it returns: NUL-terminated, not
\* necessarily UTF-8.
HostMem == { <<47, 195, 169, 0>>, <<47, 195, 0>> }

\* A host function returns NULL or the next free address.
HostReturns(allocated) ==
    {[ptr |-> NULL, mem |-> << >>]}
        \cup {[ptr |-> Cardinality(allocated) + 1, mem |-> m] : m \in HostMem}

\* ------------------------------------------------------- feature tables
NoFeature == [null |-> TRUE, handle |-> "", f1 |-> "", f2 |-> ""]
NullFn == ""
None == [some |-> FALSE]

\* LV2_State_Make_Path { handle, path }
MakeTables ==
    {NoFeature} \cup
    {[null |-> FALSE, handle |-> "make_handle", f1 |-> f, f2 |-> NullFn] :
        f \in {NullFn, "make_path"}}

\* LV2_State_Map_Path { handle, abstract_path, absolute_path }
MapTables ==
    {NoFeature} \cup
    {[null |-> FALSE, handle |-> "map_handle", f1 |-> f, f2 |-> g] :
        f \in {NullFn, "abstract_path"}, g \in {NullFn, "absolute_path"}}

\* LV2_State_Free_Path { handle, free_path }
FreeTables ==
    {NoFeature} \cup
    {[null |-> FALSE, handle |-> "free_handle", f1 |-> f, f2 |-> NullFn] :
        f \in {NullFn, "free_path"}}

\* MakePath::from_feature_ptr
MakePath_from_feature_ptr(feature) ==
    IF feature.null THEN None
    ELSE IF feature.f1 = NullFn THEN None
    ELSE [some |-> TRUE, handle |-> feature.handle, function |-> feature.f1]

\* Checks abstract_path only.
MapPath_from_feature_ptr_OneChecked(feature) ==
    IF feature.null THEN None
    ELSE IF feature.f1 = NullFn THEN None
    ELSE [some |-> TRUE, handle |-> feature.handle,
          abstract_path |-> feature.f1, absolute_path |-> feature.f2]

\* MapPath::from_feature_ptr
MapPath_from_feature_ptr(feature) ==
    IF feature.null THEN None
    ELSE IF feature.f1 = NullFn THEN None
    ELSE IF feature.f2 = NullFn THEN None
    ELSE [some |-> TRUE, handle |-> feature.handle,
          abstract_path |-> feature.f1, absolute_path |-> feature.f2]

\* FreePath::from_feature_ptr (the Rc<Mutex<FreePathImpl>> it allocates is
\* the variables rc and mutex)
FreePath_from_feature_ptr(feature) ==
    IF feature.null THEN None
    ELSE IF feature.f1 = NullFn THEN None
    ELSE [some |-> TRUE, handle |-> feature.handle, free_path |-> feature.f1]

\* ------------------------------------------------------------ host calls
\* One call through a function pointer: the pointer called, the handle and
\* argument passed, and what came back.
Call(fn, handle, argPtr, argBytes, ret) ==
    [fn |-> fn, handle |-> handle, argPtr |-> argPtr, argBytes |-> argBytes,
     ret |-> ret]

Ok(s) == [tag |-> "Ok", err |-> "", val |-> s]
Err(e) == [tag |-> "Err", err |-> e, val |-> [ptr |-> NULL, bytes |-> << >>]]

Out(result, calls) == [result |-> result, calls |-> calls]

\* ------------------------------------------------------------- MakePath
\* Reports a host string that does not decode as PathNotUTF8.
MakePath_relative_to_absolute_path_DecodeAsInputError(self, relative_path, ret) ==
    IF ~is_relative(relative_path) THEN Out(Err("PathNotRelative"), << >>)
    ELSE IF ~IsUTF8(relative_path) THEN Out(Err("PathNotUTF8"), << >>)
    ELSE LET buf == to_c_chars(relative_path)
             call == Call(self.function, self.handle, PluginBuf, buf, ret.ptr)
             absolute_path == CStr_from_ptr(ret.ptr, ret.mem)
         IN IF ret.ptr = NULL THEN Out(Err("HostError"), <<call>>)
            ELSE IF IsUTF8(absolute_path.bytes)
                 THEN Out(Ok(absolute_path), <<call>>)
                 ELSE Out(Err("PathNotUTF8"), <<call>>)

\* MakePath::relative_to_absolute_path; ret is what the host function
\* returns if it is called.
MakePath_relative_to_absolute_path(self, relative_path, ret) ==
    IF ~is_relative(relative_path) THEN Out(Err("PathNotRelative"), << >>)
    ELSE IF ~IsUTF8(relative_path) THEN Out(Err("PathNotUTF8"), << >>)
    ELSE LET buf == to_c_chars(relative_path)
             call == Call(self.function, self.handle, PluginBuf, buf, ret.ptr)
             absolute_path == CStr_from_ptr(ret.ptr, ret.mem)
         IN IF ret.ptr = NULL THEN Out(Err("HostError"), <<call>>)
            ELSE IF IsUTF8(absolute_path.bytes)
                 THEN Out(Ok(absolute_path), <<call>>)
                 ELSE Out(Err("HostError"), <<call>>)

\* -------------------------------------------------------------- MapPath
\* Without the is_absolute check.
MapPath_absolute_to_abstract_path_Unchecked(self, path, ret) ==
    IF ~IsUTF8(path) THEN Out(Err("PathNotUTF8"), << >>)
    ELSE LET buf == to_c_chars(path)
             call == Call(self.abstract_path, self.handle, PluginBuf, buf, ret.ptr)
             str == CStr_from_ptr(ret.ptr, ret.mem)
         IN IF ret.ptr = NULL THEN Out(Err("HostError"), <<call>>)
            ELSE IF IsUTF8(str.bytes)
                 THEN Out(Ok(str), <<call>>)
                 ELSE Out(Err("HostError"), <<call>>)

\* MapPath::absolute_to_abstract_path
MapPath_absolute_to_abstract_path(self, path, ret) ==
    IF ~is_absolute(path) THEN Out(Err("PathNotAbsolute"), << >>)
    ELSE IF ~IsUTF8(path) THEN Out(Err("PathNotUTF8"), << >>)
    ELSE LET buf == to_c_chars(path)
             call == Call(self.abstract_path, self.handle, PluginBuf, buf, ret.ptr)
             str == CStr_from_ptr(ret.ptr, ret.mem)
         IN IF ret.ptr = NULL THEN Out(Err("HostError"), <<call>>)
            ELSE IF IsUTF8(str.bytes)
                 THEN Out(Ok(str), <<call>>)
                 ELSE Out(Err("HostError"), <<call>>)

\* Without the is_null check.
MapPath_abstract_to_absolute_path_NoNullCheck(self, path, ret) ==
    LET buf == to_c_chars(path)
        call == Call(self.absolute_path, self.handle, PluginBuf, buf, ret.ptr)
        abs == CStr_from_ptr(ret.ptr, ret.mem)
    IN IF IsUTF8(abs.bytes)
       THEN Out(Ok(abs), <<call>>)
       ELSE Out(Err("HostError"), <<call>>)

\* MapPath::abstract_to_absolute_path
MapPath_abstract_to_absolute_path(self, path, ret) ==
    LET buf == to_c_chars(path)
        call == Call(self.absolute_path, self.handle, PluginBuf, buf, ret.ptr)
        abs == CStr_from_ptr(ret.ptr, ret.mem)
    IN IF ret.ptr = NULL THEN Out(Err("HostError"), <<call>>)
       ELSE IF IsUTF8(abs.bytes)
            THEN Out(Ok(abs), <<call>>)
            ELSE Out(Err("HostError"), <<call>>)

\* ------------------------------------------------------------- FreePath
\* Calls the host twice.
FreePath_free_path_Twice(self, path) ==
    << Call(self.free_path, self.handle, as_ptr(path), << >>, NULL),
       Call(self.free_path, self.handle, as_ptr(path), << >>, NULL) >>

\* FreePath::free_path, the host call made while the lock is held.
FreePath_free_path(self, path) ==
    << Call(self.free_path, self.handle, as_ptr(path), << >>, NULL) >>

\* ------------------------------------------- ManagedPath and ManagedStr
\* A wrapper: kind is "ManagedPath" or "ManagedStr"; s is the borrowed
\* path / str; free_path is its clone of the FreePath handle; origin is the
\* pointer the host returned for it (history).  pc is the position of its
\* destruction: "live", "locking" (in FreePath::free_path, before lock()),
\* "calling" (lock held, host call not yet made), "called" (host call
\* returned, guard not yet dropped), "dropped".
Wrapper(kind, s, free, origin) ==
    [kind |-> kind, s |-> s, free_path |-> free, origin |-> origin,
     pc |-> "live"]

\* Path::to_str on a path made from a str: the same slice.
Path_to_str(path) == path

\* A ManagedStr without a Drop impl.
ManagedStr_drop_Missing(self) == << >>

\* Drop for ManagedPath
ManagedPath_drop(self) == FreePath_free_path(self.free_path, Path_to_str(self.s))

\* Drop for ManagedStr
ManagedStr_drop(self) == FreePath_free_path(self.free_path, self.s)

\* ---------------------------------------------------------- PathManager
\* PathManager::new
PathManager_new(mk, fr) ==
    [state |-> "live", make |-> mk, map |-> None, free |-> fr]

\* PathManager::new_with_map
PathManager_new_with_map(mk, mp, fr) ==
    [state |-> "live", make |-> mk, map |-> mp, free |-> fr]

\* Result of a PathManager operation: the Result, the host calls made and
\* the wrappers constructed (none or one).
Wrapped(out, kind, free) ==
    [result |-> out.result, calls |-> out.calls,
     made |-> IF out.result.tag = "Ok"
              THEN << Wrapper(kind, out.result.val, free,
                              out.calls[Len(out.calls)].ret) >>
              ELSE << >>]

\* PathManager::relative_to_absolute_path
PathManager_relative_to_absolute_path(self, relative_path, ret) ==
    Wrapped(MakePath_relative_to_absolute_path(self.make, relative_path, ret),
            "ManagedPath", self.free)

\* PathManager::absolute_to_abstract_path
PathManager_absolute_to_abstract_path(self, path, ret) ==
    IF ~self.map.some
    THEN Wrapped(Out(Err("FeatureMissing"), << >>), "ManagedStr", self.free)
    ELSE Wrapped(MapPath_absolute_to_abstract_path(self.map, path, ret),
                 "ManagedStr", self.free)

\* Reports a missing Mapper as a host failure.
PathManager_abstract_to_absolute_path_HostError(self, path, ret) ==
    IF ~self.map.some
    THEN Wrapped(Out(Err("HostError"), << >>), "ManagedPath", self.free)
    ELSE Wrapped(MapPath_abstract_to_absolute_path(self.map, path, ret),
                 "ManagedPath", self.free)

\* PathManager::abstract_to_absolute_path
PathManager_abstract_to_absolute_path(self, path, ret) ==
    IF ~self.map.some
    THEN Wrapped(Out(Err("FeatureMissing"), << >>), "ManagedPath", self.free)
    ELSE Wrapped(MapPath_abstract_to_absolute_path(self.map, path, ret),
                 "ManagedPath", self.free)

\* ------------------------------------------------------------- Mutex
\* Locks although the mutex is held.
Mutex_lock_Unguarded(m) == TRUE

\* Mutex::lock returns once the mutex is free (m is its holder, 0 if none).
Mutex_lock(m) == m = 0

\* ---------------------------------------------------------------- state
VARIABLES
    descriptors, \* what from_feature_ptr gave: [make, map, free], each
                 \* "unset" (not asked yet), None or a descriptor
    manager,     \* the PathManager: state "none", "live" or "dropped"
    rc,          \* strong count of the Rc<Mutex<FreePathImpl>>
    extra,       \* FreePath clones held by the plugin itself
    mutex,       \* holder of the Mutex: index of a wrapper, 0 if free
    wrappers,    \* every ManagedPath / ManagedStr made, in order
    allocated,   \* non-null pointers the host has returned (history)
    freeCount,   \* per pointer: host free_path calls made on it (history)
    last         \* the last operation: input, result, host calls made

vars == << descriptors, manager, rc, extra, mutex, wrappers, allocated,
           freeCount, last >>

Unset == [some |-> FALSE, unset |-> TRUE]

NoManager == [state |-> "none", make |-> None, map |-> None, free |-> None]

NoRet == [ptr |-> NULL, mem |-> << >>]

\* op: the operation; input: its path argument; table: its feature table
\* (from_feature_ptr); result: its Result; calls: the host calls it made;
\* made: how many wrappers it constructed; ret: what the host returned.
Last(op, input, table, result, calls, made, ret) ==
    [op |-> op, input |-> input, table |-> table, result |-> result,
     calls |-> calls, made |-> made, ret |-> ret]

Unit == Ok([ptr |-> NULL, bytes |-> << >>])

Quiet(op) == Last(op, << >>, NoFeature, Unit, << >>, 0, NoRet)

Init ==
    /\ descriptors = [make |-> Unset, map |-> Unset, free |-> Unset]
    /\ manager = NoManager
    /\ rc = 0
    /\ extra = 0
    /\ mutex = 0
    /\ wrappers = << >>
    /\ allocated = {}
    /\ freeCount = [p \in Ptrs |-> 0]
    /\ last = Quiet("init")

IsUnset(d) == "unset" \in DOMAIN d

\* The framework asks for each feature once, at instantiation.
MakePathFromFeaturePtr ==
    /\ IsUnset(descriptors.make)
    /\ \E t \in MakeTables :
          /\ descriptors' = [descriptors EXCEPT !.make = MakePath_from_feature_ptr(t)]
          /\ last' = [Quiet("MakePath::from_feature_ptr") EXCEPT !.table = t]
    /\ UNCHANGED << manager, rc, extra, mutex, wrappers, allocated, freeCount >>

MapPathFromFeaturePtr ==
    /\ IsUnset(descriptors.map)
    /\ \E t \in MapTables :
          /\ descriptors' = [descriptors EXCEPT !.map = MapPath_from_feature_ptr(t)]
          /\ last' = [Quiet("MapPath::from_feature_ptr") EXCEPT !.table = t]
    /\ UNCHANGED << manager, rc, extra, mutex, wrappers, allocated, freeCount >>

FreePathFromFeaturePtr ==
    /\ IsUnset(descriptors.free)
    /\ \E t \in FreeTables :
          /\ descriptors' = [descriptors EXCEPT !.free = FreePath_from_feature_ptr(t)]
          /\ rc' = IF descriptors'.free.some THEN 1 ELSE 0
          /\ last' = [Quiet("FreePath::from_feature_ptr") EXCEPT !.table = t]
    /\ UNCHANGED << manager, extra, mutex, wrappers, allocated, freeCount >>

\* The host's side of a sequence of calls: what it allocated and what it
\* was asked to free.
IsAlloc(c) == c.fn \in {"make_path", "abstract_path", "absolute_path"}
IsFree(c) == c.fn = "free_path"

Allocates(calls) ==
    {calls[i].ret : i \in {j \in DOMAIN calls : IsAlloc(calls[j]) /\ calls[j].ret # NULL}}

Frees(calls, p) ==
    Cardinality({i \in DOMAIN calls : IsFree(calls[i]) /\ calls[i].argPtr = p})

HostSees(calls) ==
    /\ allocated' = allocated \cup Allocates(calls)
    /\ freeCount' = [p \in Ptrs |-> freeCount[p] + Frees(calls, p)]

\* A PathManager operation returned r; the host returned ret if called.
Returned(op, input, ret, r) ==
    /\ HostSees(r.calls)
    /\ wrappers' = wrappers \o r.made
    /\ rc' = rc + Len(r.made)
    /\ last' = Last(op, input, NoFeature, r.result, r.calls, Len(r.made), ret)
    /\ UNCHANGED << descriptors, manager, extra, mutex >>

\* The host returns something only to an operation that calls it (whether
\* it does is decided before the call, so r may be computed with any ret).
RetsFor(r) == IF r.calls = << >> THEN {NoRet} ELSE HostReturns(allocated)

HasRoom == Cardinality(allocated) < MaxPtr /\ Len(wrappers) < MaxPtr

New ==
    /\ manager.state = "none"
    /\ descriptors.make.some
    /\ descriptors.free.some
    /\ manager' = PathManager_new(descriptors.make, descriptors.free)
    /\ last' = Quiet("new")
    /\ UNCHANGED << descriptors, rc, extra, mutex, wrappers, allocated,
                    freeCount >>

NewWithMap ==
    /\ manager.state = "none"
    /\ descriptors.make.some
    /\ descriptors.map.some
    /\ descriptors.free.some
    /\ manager' = PathManager_new_with_map(descriptors.make, descriptors.map,
                                           descriptors.free)
    /\ last' = Quiet("new_with_map")
    /\ UNCHANGED << descriptors, rc, extra, mutex, wrappers, allocated,
                    freeCount >>

RelativeToAbsolutePath ==
    /\ manager.state = "live"
    /\ HasRoom
    /\ \E path \in Paths :
          \E ret \in RetsFor(PathManager_relative_to_absolute_path(manager, path, NoRet)) :
             Returned("relative_to_absolute_path", path, ret,
                      PathManager_relative_to_absolute_path(manager, path, ret))

AbsoluteToAbstractPath ==
    /\ manager.state = "live"
    /\ HasRoom
    /\ \E path \in Paths :
          \E ret \in RetsFor(PathManager_absolute_to_abstract_path(manager, path, NoRet)) :
             Returned("absolute_to_abstract_path", path, ret,
                      PathManager_absolute_to_abstract_path(manager, path, ret))

AbstractToAbsolutePath ==
    /\ manager.state = "live"
    /\ HasRoom
    /\ \E path \in Strs :
          \E ret \in RetsFor(PathManager_abstract_to_absolute_path(manager, path, NoRet)) :
             Returned("abstract_to_absolute_path", path, ret,
                      PathManager_abstract_to_absolute_path(manager, path, ret))

\* The PathManager goes out of scope: its FreePath handle is dropped.
DropManager ==
    /\ manager.state = "live"
    /\ manager' = [manager EXCEPT !.state = "dropped"]
    /\ rc' = rc - 1
    /\ last' = Quiet("drop_manager")
    /\ UNCHANGED << descriptors, extra, mutex, wrappers, allocated, freeCount >>

\* #[derive(Clone)] on FreePath: the plugin clones the handle it got from
\* from_feature_ptr (before it gives it to the PathManager) or a clone.
CloneFreePath ==
    /\ descriptors.free.some
    /\ manager.state = "none" \/ extra > 0
    /\ extra < MaxClones
    /\ extra' = extra + 1
    /\ rc' = rc + 1
    /\ last' = Quiet("clone")
    /\ UNCHANGED << descriptors, manager, mutex, wrappers, allocated, freeCount >>

DropFreePathClone ==
    /\ extra > 0
    /\ extra' = extra - 1
    /\ rc' = rc - 1
    /\ last' = Quiet("drop_clone")
    /\ UNCHANGED << descriptors, manager, mutex, wrappers, allocated, freeCount >>

\* ------------------------------------------------ dropping a wrapper
Wrappers == 1..MaxPtr

pcOf(w) == IF w \in DOMAIN wrappers THEN wrappers[w].pc ELSE "none"

SetPc(w, pc) == wrappers' = [wrappers EXCEPT ![w].pc = pc]

\* The wrapper goes out of scope: Drop::drop enters FreePath::free_path.
BeginDrop(w) ==
    /\ pcOf(w) = "live"
    /\ SetPc(w, "locking")
    /\ UNCHANGED << descriptors, manager, rc, extra, mutex, allocated,
                    freeCount, last >>

\* self.internal.lock().unwrap()
AcquireLock(w) ==
    /\ pcOf(w) = "locking"
    /\ Mutex_lock(mutex)
    /\ mutex' = w
    /\ SetPc(w, "calling")
    /\ UNCHANGED << descriptors, manager, rc, extra, allocated, freeCount,
                    last >>

Drop_drop(self) ==
    IF self.kind = "ManagedPath" THEN ManagedPath_drop(self)
    ELSE ManagedStr_drop(self)

\* (internal.free_path)(internal.handle, path.as_ptr()) runs and returns:
\* the guard is dropped, then the wrapper's FreePath handle.
CallFree(w) ==
    /\ pcOf(w) = "calling"
    /\ LET calls == Drop_drop(wrappers[w])
       IN /\ HostSees(calls)
          /\ last' = Last("drop", << >>, NoFeature, Unit, calls, 0, NoRet)
    /\ mutex' = IF mutex = w THEN 0 ELSE mutex
    /\ rc' = rc - 1
    /\ SetPc(w, "dropped")
    /\ UNCHANGED << descriptors, manager, extra >>

Next ==
    \/ MakePathFromFeaturePtr
    \/ MapPathFromFeaturePtr
    \/ FreePathFromFeaturePtr
    \/ New
    \/ NewWithMap
    \/ RelativeToAbsolutePath
    \/ AbsoluteToAbstractPath
    \/ AbstractToAbsolutePath
    \/ DropManager
    \/ CloneFreePath
    \/ DropFreePathClone
    \/ \E w \in Wrappers : BeginDrop(w)
    \/ \E w \in Wrappers : AcquireLock(w)
    \/ \E w \in Wrappers : CallFree(w)

Spec == Init /\ [][Next]_vars

\* A thread that is in drop keeps running, and a thread waiting for the
\* mutex gets it.
FairSpec ==
    /\ Spec
    /\ \A w \in Wrappers :
          /\ SF_vars(AcquireLock(w))
          /\ WF_vars(CallFree(w))

\* ================================================================ claims
PathOps == {"relative_to_absolute_path", "absolute_to_abstract_path",
            "abstract_to_absolute_path"}

RECURSIVE SumFree(_)
SumFree(P) ==
    IF P = {} THEN 0
    ELSE LET p == CHOOSE q \in P : TRUE
         IN freeCount[p] + SumFree(P \ {p})

Dropped == {w \in DOMAIN wrappers : wrappers[w].pc = "dropped"}

\* C1: the host free_path function is called exactly once for every
\* wrapper a PathManager operation returned, when the wrapper is dropped
\* and not before, with the pointer the host returned for it; nothing else
\* (cloning or dropping a FreePath handle, dropping the PathManager) makes
\* a host free_path call, so the calls made are as many as the wrappers
\* dropped.
C1_ReleasedOncePerWrapper ==
    /\ \A w \in DOMAIN wrappers :
          /\ wrappers[w].origin \in allocated
          /\ freeCount[wrappers[w].origin] = (IF w \in Dropped THEN 1 ELSE 0)
    /\ SumFree(Ptrs) = Cardinality(Dropped)

C1_Witness ==
    /\ manager.state = "dropped"
    /\ last.op = "drop_clone"
    /\ \E v, w \in DOMAIN wrappers :
          /\ wrappers[v].kind = "ManagedStr"
          /\ v \in Dropped
          /\ wrappers[w].kind = "ManagedPath"
          /\ wrappers[w].pc = "live"

\* C2: every non-null string the host returned has been passed to the host
\* free_path function once, or is held by a wrapper whose drop will pass it
\* (no host string is left that nothing will release).
C2_NoHostStringLeaked ==
    \A p \in allocated :
        \/ freeCount[p] = 1
        \/ /\ freeCount[p] = 0
           /\ \E w \in DOMAIN wrappers :
                 wrappers[w].origin = p /\ w \notin Dropped

\* C3: relative_to_absolute_path either fails with PathNotRelative (the
\* path is not relative) or PathNotUTF8 (it is not valid UTF-8) without a
\* host call, or calls the host make_path function exactly once with the
\* bytes of the input followed by one null terminator.
C3_MakeValidatesThenForwards ==
    last.op = "relative_to_absolute_path" =>
        \/ /\ last.result = Err("PathNotRelative")
           /\ ~is_relative(last.input)
           /\ last.calls = << >>
        \/ /\ last.result = Err("PathNotUTF8")
           /\ ~IsUTF8(last.input)
           /\ last.calls = << >>
        \/ /\ is_relative(last.input)
           /\ IsUTF8(last.input)
           /\ Len(last.calls) = 1
           /\ last.calls[1].fn = "make_path"
           /\ last.calls[1].argBytes = last.input \o <<0>>

C3_Witness ==
    /\ last.op = "relative_to_absolute_path"
    /\ last.input = <<195, 169>>
    /\ Len(last.calls) = 1
    /\ last.result.tag = "Ok"

\* C4: with a PathManager made by PathManager::new (no Mapper), both
\* Mapper-backed operations return FeatureMissing for every input and call
\* no host function.
C4_FeatureMissingWithoutMapper ==
    (last.op \in {"absolute_to_abstract_path", "abstract_to_absolute_path"}
        /\ ~manager.map.some)
    => /\ last.result = Err("FeatureMissing")
       /\ last.calls = << >>
       /\ last.made = 0

C4_Witness ==
    /\ last.op = "abstract_to_absolute_path"
    /\ ~manager.map.some
    /\ last.input = <<195, 169>>
    /\ last.result.err = "FeatureMissing"

\* C5: when the host function an operation calls returns a null pointer,
\* the operation returns HostError and constructs no wrapper; no wrapper
\* holds a null pointer and free_path is never called with one.
C5_NullResultIsHostError ==
    /\ (last.op \in PathOps /\ last.calls # << >> /\ last.calls[1].ret = NULL)
       => (last.result = Err("HostError") /\ last.made = 0)
    /\ \A w \in DOMAIN wrappers : wrappers[w].s.ptr # NULL
    /\ freeCount[NULL] = 0

C5_Witness ==
    /\ last.op = "abstract_to_absolute_path"
    /\ Len(last.calls) = 1
    /\ last.calls[1].ret = NULL
    /\ last.result.err = "HostError"
    /\ Len(wrappers) = 1

\* C6: with a Mapper, absolute_to_abstract_path fails with PathNotAbsolute
\* for every non-absolute input without a host call, and for an absolute
\* valid UTF-8 input calls the host abstract_path function exactly once
\* with the input bytes followed by one null terminator.
C6_MapValidatesThenForwards ==
    (last.op = "absolute_to_abstract_path" /\ manager.map.some) =>
        /\ ~is_absolute(last.input)
              => (last.result = Err("PathNotAbsolute") /\ last.calls = << >>)
        /\ (is_absolute(last.input) /\ IsUTF8(last.input))
              => /\ Len(last.calls) = 1
                 /\ last.calls[1].fn = "abstract_path"
                 /\ last.calls[1].argBytes = last.input \o <<0>>

C6_Witness ==
    /\ last.op = "absolute_to_abstract_path"
    /\ manager.map.some
    /\ last.input = <<47, 47>>
    /\ Len(last.calls) = 1
    /\ last.made = 1

\* C7: PathNotRelative, PathNotAbsolute and PathNotUTF8 are returned only
\* when the operation made no host call; after a host call the only error
\* is HostError; a non-null host result that is not valid UTF-8 gives
\* HostError and no wrapper, and a wrapper holds the host's bytes as they
\* are.
C7_ErrorsPartitionedByCause ==
    last.op \in PathOps =>
        /\ last.result.err \in {"PathNotRelative", "PathNotAbsolute", "PathNotUTF8"}
              => last.calls = << >>
        /\ (last.calls # << >> /\ last.result.tag = "Err")
              => last.result.err = "HostError"
        /\ (last.calls # << >> /\ last.ret.ptr # NULL
                /\ ~IsUTF8(CStr_from_ptr(last.ret.ptr, last.ret.mem).bytes))
              => (last.result = Err("HostError") /\ last.made = 0)
        /\ last.result.tag = "Ok"
              => /\ last.made = 1
                 /\ wrappers[Len(wrappers)].s.bytes
                        = SubSeq(last.ret.mem, 1, Len(last.ret.mem) - 1)

C7_Witness ==
    /\ last.op = "relative_to_absolute_path"
    /\ last.ret.ptr # NULL
    /\ last.ret.mem = <<47, 195, 0>>
    /\ last.result.err = "HostError"

\* C8: every pointer passed to the host free_path function is non-null,
\* was returned earlier by make_path, abstract_path or absolute_path, is
\* not a buffer of the plugin, and has been passed once only.
C8_OnlyHostPointersFreedOnce ==
    \A p \in Ptrs :
        freeCount[p] > 0 =>
            /\ p # NULL
            /\ p # PluginBuf
            /\ p \in allocated
            /\ freeCount[p] = 1

C8_Witness ==
    /\ Cardinality({p \in Ptrs : freeCount[p] = 1}) >= 2
    /\ \E v, w \in Dropped : wrappers[v].kind # wrappers[w].kind

InCall == {w \in Wrappers : pcOf(w) = "calling"}

InDrop == {w \in Wrappers : pcOf(w) \in {"locking", "calling"}}

\* C9: at most one host free_path call against the shared handle is in
\* progress at any time, the mutex is held only during such a call, and
\* every drop that has started completes its release: a drop in progress
\* only moves on towards "dropped", so it completes if again and again no
\* drop is in progress.
C9_ReleasesMutuallyExclusive ==
    /\ [](Cardinality(InCall) <= 1)
    /\ [](mutex # 0 => InCall = {mutex})
    /\ []<>(InDrop = {})

C9_Witness ==
    \E v, w \in Wrappers : pcOf(v) = "calling" /\ pcOf(w) = "locking"

TableComplete(t, n) ==
    /\ ~t.null
    /\ t.f1 # NullFn
    /\ n = 2 => t.f2 # NullFn

\* C10: from_feature_ptr constructs a descriptor if and only if the table
\* pointer is non-null and every function pointer of the table is non-null
\* (both of them for MapPath); every function pointer a descriptor holds,
\* and every one called, is non-null.
C10_DescriptorsValidated ==
    /\ last.op = "MakePath::from_feature_ptr"
          => (descriptors.make.some <=> TableComplete(last.table, 1))
    /\ last.op = "MapPath::from_feature_ptr"
          => (descriptors.map.some <=> TableComplete(last.table, 2))
    /\ last.op = "FreePath::from_feature_ptr"
          => (descriptors.free.some <=> TableComplete(last.table, 1))
    /\ descriptors.make.some => descriptors.make.function # NullFn
    /\ descriptors.map.some
          => /\ descriptors.map.abstract_path # NullFn
             /\ descriptors.map.absolute_path # NullFn
    /\ descriptors.free.some => descriptors.free.free_path # NullFn
    /\ \A i \in DOMAIN last.calls : last.calls[i].fn # NullFn

C10_Witness ==
    /\ last.op = "MapPath::from_feature_ptr"
    /\ ~last.table.null
    /\ last.table.f1 # NullFn
    /\ last.table.f2 = NullFn
    /\ ~descriptors.map.some
    /\ ~IsUnset(descriptors.map)
====
